---- MODULE Spec2Model ----
(***************************************************************************)
(* Model of openerp.py: a start/stop/restart/status wrapper around         *)
(* start-stop-daemon.  One run of main() is a sequence of steps (pc); the  *)
(* operating system (program files, the PID file, /proc, the daemon        *)
(* utility and the supervised processes) is the environment, and every     *)
(* answer it gives is an input drawn where the code asks for it.           *)
(*                                                                         *)
(* Strings are TLA+ strings; the text of the PID file is a sequence of     *)
(* one-character strings so that readline() and strip() can be computed.   *)
(* A value that Python leaves unset is the empty sequence, a set value v   *)
(* is <<v>>.                                                               *)
(***************************************************************************)
EXTENDS Integers, Sequences, FiniteSets, TLC

VARIABLES
    pc,          \* position of the run inside the script
    args,        \* positional arguments left by parse_args
    options,     \* parsed options: server_dir, webserver_dir, user, debug
    command,     \* args[0] once validated
    target,      \* args[1] once validated
    program,     \* resolved program path
    pidfile,     \* resolved PID file path
    programExists, \* <<answer of os.path.exists(program)>>
    returncode,  \* <<process.returncode>> of the child last waited for
    code_stop,   \* <<value returned by stop()>>
    code_start,  \* <<value returned by start()>>
    rv,          \* <<value returned by main()>>
    raised,      \* TRUE when main() was left by an uncaught exception
    exitStatus,  \* <<exit status of the interpreter>>
    child,       \* the child process being waited for, "none" if none
    trace,       \* system calls made by this run, in order
    trace2,      \* the calls the same run makes under the other --user value
    logged,      \* records emitted by logging: <<level, message>>
    content,     \* <<text of the PID file>> once opened
    pid,         \* <<first line of the PID file, stripped>>
    procs,       \* pids with an entry under /proc when status looked
    running,     \* environment: is the daemon of each target alive
    wasRunning,  \* running[target] when this run was invoked
    prev         \* <<summary of the previous run>>

vars == <<pc, args, options, command, target, program, pidfile,
          programExists, returncode,
          code_stop, code_start, rv, raised, exitStatus, child, trace, trace2,
          logged, content, pid, procs, running, wasRunning, prev>>

----------------------------------------------------------------------------
(* Bounds and input sets *)

\* longest positional argument list tried
MaxArgs == 2

\* longest PID file text tried (characters)
MaxContent == 2

Commands == {"start", "stop", "restart", "status"}

Targets == {"server", "webserver"}

\* words a caller may type as positional arguments
Words == Commands \cup Targets \cup {"database"}

Users == {"openerp", "root"}

\* exit codes of the daemon utility as Popen reports them: 0 ok, 1 nothing to
\* do, 2 and 3 errors, -9 killed by SIGKILL
ReturnCodes == {0 - 9, 0, 1, 2, 3}

\* characters of a PID file
Chars == {"1", "2", " ", "\n"}

Whitespace == {" ", "\n"}

\* process ids that may be alive when status looks
Pids == {"1", "12"}

ArgLists == UNION {[1..n -> Words] : n \in 0..MaxArgs}

Contents == UNION {[1..n -> Chars] : n \in 0..MaxContent}

\* command lines of the runs that follow one another: the lifecycle commands
LifecycleArgs == {<<c, t>> : c \in {"start", "stop", "restart"}, t \in Targets}

\* os.getcwd()
Cwd == "/opt/openerp"

----------------------------------------------------------------------------
(* Pure helpers of the script *)

\* the argument check without its test of the target
BadArgumentsNoTarget(a) ==
    \/ Len(a) < 2
    \/ a[1] \notin {"start", "stop", "restart", "status"}

\* len(args) < 2 or args[0] not in (...) or args[1] not in (...)
BadArguments(a) ==
    \/ Len(a) < 2
    \/ a[1] \notin {"start", "stop", "restart", "status"}
    \/ a[2] \notin {"server", "webserver"}

\* the program looked up under the home directory of --user
ProgramPathPerUser(opts, tgt) ==
    IF tgt = "server"
    THEN "/home/" \o opts.user \o "/server/bin/openerp-server.py"
    ELSE "/home/" \o opts.user \o "/web/openerp-web.py"

\* os.path.join(options.<dir>, ..., '<program>.py') for the target
ProgramPath(opts, tgt) ==
    IF tgt = "server"
    THEN opts.server_dir \o "/bin/openerp-server.py"
    ELSE opts.webserver_dir \o "/openerp-web.py"

\* os.path.join(options.<dir>, ..., '<target>.pid') for the target
PidfilePath(opts, tgt) ==
    IF tgt = "server"
    THEN opts.server_dir \o "/bin/server.pid"
    ELSE opts.webserver_dir \o "/webserver.pid"

\* shlex.split(START_COMMAND % {...})
StartArgv(directory, script, pidf) ==
    <<"start-stop-daemon", "--start", "--quiet", "--startas", script,
      "--make-pidfile", "--background", "--chdir", directory,
      "--pidfile", pidf>>

\* shlex.split(STOP_COMMAND % {...})
StopArgv(pidf) ==
    <<"start-stop-daemon", "--stop", "--quiet", "--pidfile", pidf,
      "-R", "TERM/15/KILL/5">>

\* message start() hands to exit(), <<>> when it returns 0 directly
StartMessage(rc) ==
    IF rc = 1 THEN <<"already_running">>
    ELSE IF rc > 1 THEN <<"start_error">>
    ELSE <<>>

\* value start() returns for a child return code
StartResult(rc) ==
    IF rc = 1 THEN rc
    ELSE IF rc > 1 THEN rc
    ELSE 0

\* message stop() hands to exit(), <<>> when it returns 0 directly
StopMessage(rc) ==
    IF rc = 1 THEN <<"not_running">>
    ELSE IF rc > 1 THEN <<"stop_error">>
    ELSE <<>>

\* stop() treating "not running" as done
StopResultSwallow(rc) ==
    IF rc > 1 THEN rc ELSE 0

\* value stop() returns for a child return code
StopResult(rc) ==
    IF rc = 1 THEN rc
    ELSE IF rc > 1 THEN rc
    ELSE 0

\* restart failing only when both calls failed
RestartResultAnd(cs, ca) ==
    IF cs # 0 /\ ca # 0 THEN 1 ELSE 0

\* restart: 1 when either call returned nonzero, else 0
RestartResult(cs, ca) ==
    IF cs # 0 \/ ca # 0 THEN 1 ELSE 0

\* sys.exit(n): the exit status is the low byte of n
SysExit(n) == n % 256

\* exit status of the interpreter after an uncaught exception
UncaughtExit == SysExit(1)

\* records of logging.error(message) for an optional message
ErrorRecords(msg) ==
    IF msg = <<>> THEN <<>> ELSE <<<<"ERROR", msg[1]>>>>

\* records of logging.debug(...): emitted only under --debug
DebugRecords(opts, what) ==
    IF opts.debug THEN <<<<"DEBUG", what>>>> ELSE <<>>

\* records of logging.info(message) when the call returned 0
InfoIfZero(c, what) ==
    IF c = 0 THEN <<<<"INFO", what>>>> ELSE <<>>

\* file.readline(): the text up to and including the first newline
RECURSIVE Readline(_)
Readline(s) ==
    IF s = <<>> THEN <<>>
    ELSE IF Head(s) = "\n" THEN <<"\n">>
    ELSE <<Head(s)>> \o Readline(Tail(s))

RECURSIVE LStrip(_)
LStrip(s) ==
    IF s # <<>> /\ Head(s) \in Whitespace THEN LStrip(Tail(s)) ELSE s

RECURSIVE RStrip(_)
RStrip(s) ==
    IF s # <<>> /\ s[Len(s)] \in Whitespace
    THEN RStrip(SubSeq(s, 1, Len(s) - 1))
    ELSE s

\* str.strip()
Strip(s) == RStrip(LStrip(s))

\* the characters as one string
RECURSIVE Str(_)
Str(s) == IF s = <<>> THEN "" ELSE Head(s) \o Str(Tail(s))

\* os.path.join('/proc', pid) for a pid that does not start with '/'
ProcPath(p) == "/proc" \o "/" \o Str(p)

\* os.path.exists on a path under /proc, given the live pids: the directory
\* /proc/ itself exists, and so does /proc/<pid> for each live pid
ProcPathExists(path, live) ==
    \/ path = "/proc/"
    \/ \E q \in live : path = "/proc/" \o q

\* message status logs for the stripped first line
StatusMessage(p, live) ==
    IF ProcPathExists(ProcPath(p), live) THEN "running" ELSE "is_stopped"

\* the option record parse_args yields, with the directory defaults
Options(user, debug) ==
    [server_dir |-> "server", webserver_dir |-> "web",
     user |-> user, debug |-> debug]

\* the same options under the other --user value
OtherUser(opts) ==
    [opts EXCEPT !.user = CHOOSE u \in Users : u # opts.user]

----------------------------------------------------------------------------
(* The environment: start-stop-daemon and the supervised process *)

\* codes other than 0 (done) and 1 (nothing to do)
ErrorCodes == ReturnCodes \ {0, 1}

\* start-stop-daemon --stop: kills a live process and returns 0, returns 1
\* when none is alive, or fails (or is killed) and changes nothing
StopMechanism(alive) ==
    {[rc |-> IF alive THEN 0 ELSE 1, alive |-> FALSE]}
        \cup {[rc |-> c, alive |-> alive] : c \in ErrorCodes}

\* start-stop-daemon --start: spawns the process and returns 0, returns 1
\* when it is alive already, or fails (or is killed) and changes nothing
StartMechanism(alive) ==
    {[rc |-> IF alive THEN 1 ELSE 0, alive |-> TRUE]}
        \cup {[rc |-> c, alive |-> alive] : c \in ErrorCodes}

----------------------------------------------------------------------------
(* The run *)

\* what is remembered of a run once the next one begins
Summary ==
    [command |-> command, target |-> target, exitStatus |-> exitStatus[1],
     returncode |-> returncode,
     wasRunning |-> IF target \in Targets THEN wasRunning[target] ELSE FALSE]

\* first step of the command in main()
Dispatch(cmd) ==
    CASE cmd = "start" -> "start_popen"
      [] cmd = "stop" -> "stop_popen"
      [] cmd = "restart" -> "stop_popen"
      [] cmd = "status" -> "status_open"

\* main() going on whatever os.path.exists(program) answered
AfterExistsUnchecked(exists, cmd) ==
    Dispatch(cmd)

\* where main() goes once os.path.exists(program) has answered
AfterExists(exists, cmd) ==
    IF ~exists THEN "returned" ELSE Dispatch(cmd)

\* the stop command falling through into the start of restart
AfterStopFallsThrough(cmd) ==
    "start_popen"

\* where the run goes when stop() has returned
AfterStop(cmd) ==
    IF cmd = "stop" THEN "stop_done" ELSE "start_popen"

\* where the run goes when start() has returned
AfterStart(cmd) ==
    IF cmd = "start" THEN "start_done" ELSE "restart_done"

Init ==
    /\ pc = "idle"
    /\ args = <<>>
    /\ options = Options("openerp", FALSE)
    /\ command = ""
    /\ target = ""
    /\ program = ""
    /\ pidfile = ""
    /\ programExists = <<>>
    /\ returncode = <<>>
    /\ code_stop = <<>>
    /\ code_start = <<>>
    /\ rv = <<>>
    /\ raised = FALSE
    /\ exitStatus = <<>>
    /\ child = "none"
    /\ trace = <<>>
    /\ trace2 = <<>>
    /\ logged = <<>>
    /\ content = <<>>
    /\ pid = <<>>
    /\ procs = {}
    /\ running \in [Targets -> BOOLEAN]
    /\ wasRunning = running
    /\ prev = <<>>

\* state of a run that has just parsed its command line; p is what is
\* remembered of the run before it
Begin(a, u, d, p) ==
    /\ args' = a
    /\ options' = Options(u, d)
    /\ prev' = p
    /\ pc' = "main"
    /\ command' = ""
    /\ target' = ""
    /\ program' = ""
    /\ pidfile' = ""
    /\ programExists' = <<>>
    /\ returncode' = <<>>
    /\ code_stop' = <<>>
    /\ code_start' = <<>>
    /\ rv' = <<>>
    /\ raised' = FALSE
    /\ exitStatus' = <<>>
    /\ child' = "none"
    /\ trace' = <<>>
    /\ trace2' = <<>>
    /\ logged' = <<>>
    /\ content' = <<>>
    /\ pid' = <<>>
    /\ procs' = {}
    /\ wasRunning' = running
    /\ UNCHANGED running

\* the script is invoked with any command line: parse_args, then the
\* logging level
Invoke ==
    /\ pc = "idle"
    /\ \E a \in ArgLists, u \in Users, d \in BOOLEAN : Begin(a, u, d, <<>>)

\* the script is invoked with a lifecycle command, possibly after an earlier
\* run has exited
InvokeAgain ==
    /\ pc \in {"idle", "exited"}
    /\ \E a \in LifecycleArgs, u \in Users :
        Begin(a, u, FALSE, IF pc = "idle" THEN <<>> ELSE <<Summary>>)

\* the argument check; on success command, target = args[0:2]
CheckArgs ==
    /\ pc = "main"
    /\ IF BadArguments(args)
       THEN /\ logged' = logged \o ErrorRecords(<<"usage">>)
            /\ rv' = <<1>>
            /\ pc' = "returned"
            /\ UNCHANGED <<command, target>>
       ELSE /\ command' = args[1]
            /\ target' = args[2]
            /\ pc' = "resolve"
            /\ UNCHANGED <<logged, rv>>
    /\ UNCHANGED <<args, options, program, pidfile,
                   programExists, returncode, code_stop,
                   code_start, raised, exitStatus, child, trace, trace2,
                   content, pid, procs, running, wasRunning, prev>>

\* program and pidfile of the target, then os.path.exists(program)
ResolveTarget ==
    /\ pc = "resolve"
    /\ program' = ProgramPath(options, target)
    /\ pidfile' = PidfilePath(options, target)
    /\ trace' = Append(trace, <<"exists", program'>>)
    /\ trace2' = Append(trace2,
                        <<"exists", ProgramPath(OtherUser(options), target)>>)
    /\ \E exists \in BOOLEAN :
        /\ programExists' = <<exists>>
        /\ pc' = AfterExists(exists, command)
    /\ IF pc' = "returned"
       THEN /\ logged' = logged \o ErrorRecords(<<"missing_program">>)
            /\ rv' = <<1>>
       ELSE UNCHANGED <<logged, rv>>
    /\ UNCHANGED <<args, options, command, target, returncode, code_stop,
                   code_start, raised, exitStatus, child, content, pid,
                   procs, running, wasRunning, prev>>

\* stop(): Popen of the stop command
StopPopen ==
    /\ pc = "stop_popen"
    /\ child' = "stop"
    /\ trace' = Append(trace, <<"spawn">> \o StopArgv(pidfile))
    /\ trace2' = Append(trace2,
           <<"spawn">> \o StopArgv(PidfilePath(OtherUser(options), target)))
    /\ pc' = "stop_wait"
    /\ UNCHANGED <<args, options, command, target, program, pidfile,
                   programExists,
                   returncode, code_stop, code_start, rv, raised, exitStatus,
                   logged, content, pid, procs, running, wasRunning, prev>>

\* stop(): communicate(), then the return code is turned into the result
StopCommunicate ==
    /\ pc = "stop_wait"
    /\ \E o \in StopMechanism(running[target]) :
        /\ returncode' = <<o.rc>>
        /\ running' = [running EXCEPT ![target] = o.alive]
        /\ logged' = logged \o DebugRecords(options, "stop_command")
                            \o ErrorRecords(StopMessage(o.rc))
        /\ code_stop' = <<StopResult(o.rc)>>
    /\ child' = "none"
    /\ trace' = Append(trace, <<"wait", "stop">>)
    /\ trace2' = Append(trace2, <<"wait", "stop">>)
    /\ pc' = AfterStop(command)
    /\ UNCHANGED <<args, options, command, target, program, pidfile,
                   programExists,
                   code_start, rv, raised, exitStatus, content, pid, procs,
                   wasRunning, prev>>

\* main(), command stop: report and return the code of stop()
MainStop ==
    /\ pc = "stop_done"
    /\ logged' = logged \o InfoIfZero(code_stop[1], "stopped")
    /\ rv' = code_stop
    /\ pc' = "returned"
    /\ UNCHANGED <<args, options, command, target, program, pidfile,
                   programExists,
                   returncode, code_stop, code_start, raised, exitStatus,
                   child, trace, trace2, content, pid, procs, running,
                   wasRunning, prev>>

\* start(): Popen of the start command
StartPopen ==
    /\ pc = "start_popen"
    /\ child' = "start"
    /\ trace' = Append(trace, <<"spawn">> \o StartArgv(Cwd, program, pidfile))
    /\ trace2' = Append(trace2,
           <<"spawn">> \o StartArgv(Cwd,
                                    ProgramPath(OtherUser(options), target),
                                    PidfilePath(OtherUser(options), target)))
    /\ pc' = "start_wait"
    /\ UNCHANGED <<args, options, command, target, program, pidfile,
                   programExists,
                   returncode, code_stop, code_start, rv, raised, exitStatus,
                   logged, content, pid, procs, running, wasRunning, prev>>

\* start(): communicate(), then the return code is turned into the result
StartCommunicate ==
    /\ pc = "start_wait"
    /\ \E o \in StartMechanism(running[target]) :
        /\ returncode' = <<o.rc>>
        /\ running' = [running EXCEPT ![target] = o.alive]
        /\ logged' = logged \o DebugRecords(options, "start_command")
                            \o ErrorRecords(StartMessage(o.rc))
        /\ code_start' = <<StartResult(o.rc)>>
    /\ child' = "none"
    /\ trace' = Append(trace, <<"wait", "start">>)
    /\ trace2' = Append(trace2, <<"wait", "start">>)
    /\ pc' = AfterStart(command)
    /\ UNCHANGED <<args, options, command, target, program, pidfile,
                   programExists,
                   code_stop, rv, raised, exitStatus, content, pid, procs,
                   wasRunning, prev>>

\* main(), command start: report and return the code of start()
MainStart ==
    /\ pc = "start_done"
    /\ logged' = logged \o InfoIfZero(code_start[1], "started")
    /\ rv' = code_start
    /\ pc' = "returned"
    /\ UNCHANGED <<args, options, command, target, program, pidfile,
                   programExists,
                   returncode, code_stop, code_start, raised, exitStatus,
                   child, trace, trace2, content, pid, procs, running,
                   wasRunning, prev>>

\* main(), command restart, after both calls: combine the two codes
MainRestart ==
    /\ pc = "restart_done"
    /\ rv' = <<RestartResult(code_stop[1], code_start[1])>>
    /\ logged' = logged \o
          (IF rv'[1] # 0 THEN ErrorRecords(<<"restart_error">>) ELSE <<>>)
    /\ pc' = "returned"
    /\ UNCHANGED <<args, options, command, target, program, pidfile,
                   programExists,
                   returncode, code_stop, code_start, raised, exitStatus,
                   child, trace, trace2, content, pid, procs, running,
                   wasRunning, prev>>

\* main(), command status: open(pidfile) succeeds
StatusOpen ==
    /\ pc = "status_open"
    /\ trace' = Append(trace, <<"open", pidfile>>)
    /\ trace2' = Append(trace2,
                   <<"open", PidfilePath(OtherUser(options), target)>>)
    /\ \E text \in Contents : content' = <<text>>
    /\ pc' = "status_read"
    /\ UNCHANGED <<args, options, command, target, program, pidfile,
                   programExists,
                   returncode, code_stop, code_start, rv, raised, exitStatus,
                   child, logged, pid, procs, running, wasRunning, prev>>

\* main(), command status: open(pidfile) raises IOError (no such file, or not
\* readable); nothing catches it, so it leaves main()
StatusOpenFails ==
    /\ pc = "status_open"
    /\ trace' = Append(trace, <<"open", pidfile>>)
    /\ trace2' = Append(trace2,
                   <<"open", PidfilePath(OtherUser(options), target)>>)
    /\ raised' = TRUE
    /\ pc' = "returned"
    /\ UNCHANGED <<args, options, command, target, program, pidfile,
                   programExists,
                   returncode, code_stop, code_start, rv, exitStatus, child,
                   logged, content, pid, procs, running, wasRunning, prev>>

\* main(), command status: first line, /proc lookup, report, return 0
StatusRead ==
    /\ pc = "status_read"
    /\ pid' = <<Strip(Readline(content[1]))>>
    /\ \E live \in SUBSET Pids :
        /\ procs' = live
        /\ logged' = Append(logged, <<"INFO", StatusMessage(pid'[1], live)>>)
    /\ trace' = Append(trace, <<"exists", ProcPath(pid'[1])>>)
    /\ trace2' = Append(trace2, <<"exists", ProcPath(pid'[1])>>)
    /\ rv' = <<0>>
    /\ pc' = "returned"
    /\ UNCHANGED <<args, options, command, target, program, pidfile,
                   programExists,
                   returncode, code_stop, code_start, raised, exitStatus,
                   child, content, running, wasRunning, prev>>

\* sys.exit(main(sys.argv)), or the interpreter ending on the exception
Exit ==
    /\ pc = "returned"
    /\ exitStatus' = IF raised THEN <<UncaughtExit>> ELSE <<SysExit(rv[1])>>
    /\ pc' = "exited"
    /\ UNCHANGED <<args, options, command, target, program, pidfile,
                   programExists,
                   returncode, code_stop, code_start, rv, raised, child,
                   trace, trace2, logged, content, pid, procs, running,
                   wasRunning, prev>>

Next ==
    \/ Invoke
    \/ CheckArgs
    \/ ResolveTarget
    \/ StopPopen
    \/ StopCommunicate
    \/ MainStop
    \/ StartPopen
    \/ StartCommunicate
    \/ MainStart
    \/ MainRestart
    \/ StatusOpen
    \/ StatusOpenFails
    \/ StatusRead
    \/ Exit

\* one run of the script, on any command line, in any environment
Spec == Init /\ [][Next]_vars

NextSeq ==
    \/ InvokeAgain
    \/ CheckArgs
    \/ ResolveTarget
    \/ StopPopen
    \/ StopCommunicate
    \/ MainStop
    \/ StartPopen
    \/ StartCommunicate
    \/ MainStart
    \/ MainRestart
    \/ Exit

\* lifecycle runs one after the other, each remembering the one before
SpecSeq == Init /\ [][NextSeq]_vars

----------------------------------------------------------------------------
(* Vocabulary of the properties *)

InSeq(x, s) == \E i \in 1..Len(s) : s[i] = x

IsProcessEvent(e) == e[1] \in {"spawn", "wait"}

\* "start" or "stop": which mechanism an event of the trace is about
Mechanism(e) ==
    IF e[1] = "wait" THEN e[2]
    ELSE IF e[3] = "--start" THEN "start" ELSE "stop"

\* the spawns and waits of the run, in order, as <<what, mechanism>>
ProcessEvents ==
    LET es == SelectSeq(trace, IsProcessEvent)
    IN  [i \in 1..Len(es) |-> <<es[i][1], Mechanism(es[i])>>]

IsPrefix(s, t) == Len(s) <= Len(t) /\ SubSeq(t, 1, Len(s)) = s

Finished == pc \in {"returned", "exited"}

ErrorLogged == \E i \in 1..Len(logged) : logged[i][1] = "ERROR"

\* the positional arguments name a command and a target
WellFormed(a) == Len(a) >= 2 /\ a[1] \in Commands /\ a[2] \in Targets

----------------------------------------------------------------------------
(* C1 *)

\* C1: restart runs stop and then start, whatever stop returned, and main
\* returns 1 exactly when stop() or start() returned a nonzero code, else 0.
\* The codes are the ones the two calls return to main (code_stop,
\* code_start).
RestartCombinesBothCodes ==
    /\ (command = "restart" /\ code_stop # <<>>) =>
          /\ pc \in {"start_popen", "start_wait", "restart_done",
                     "returned", "exited"}
          /\ pc # "start_popen" =>
                IsPrefix(<<<<"spawn", "stop">>, <<"wait", "stop">>,
                           <<"spawn", "start">>>>, ProcessEvents)
    /\ (command = "restart" /\ Finished /\ programExists = <<TRUE>>) =>
          /\ code_stop # <<>> /\ code_start # <<>>
          /\ (rv = <<1>>) <=> (code_stop[1] # 0 \/ code_start[1] # 0)
          /\ (rv = <<0>>) <=> (code_stop[1] = 0 /\ code_start[1] = 0)
          /\ (rv = <<1>>) <=> InSeq(<<"ERROR", "restart_error">>, logged)
          /\ pc = "exited" => exitStatus = rv

\* a restart whose stop failed and whose start succeeded has ended with 1
RestartAfterFailedStop ==
    /\ command = "restart" /\ pc = "exited"
    /\ code_stop = <<1>> /\ code_start = <<0>>
    /\ exitStatus = <<1>>

----------------------------------------------------------------------------
(* C2, C3 *)

\* C2: start yields 0 without an error record on code 0, 1 with "already
\* running" on code 1, a failure on every other code (negative ones included),
\* and the exit status is the code itself when the code is above 1.
StartCodesAsSpecified ==
    (command = "start" /\ pc = "exited" /\ returncode # <<>>) =>
        LET c == returncode[1]
        IN  /\ c = 0 => (exitStatus = <<0>> /\ ~ErrorLogged)
            /\ c = 1 => /\ exitStatus = <<1>>
                        /\ InSeq(<<"ERROR", "already_running">>, logged)
            /\ c \notin {0, 1} => /\ exitStatus # <<0>>
                                  /\ InSeq(<<"ERROR", "start_error">>, logged)
            /\ c > 1 => exitStatus = <<c>>

\* C3: stop yields 0 without an error record on code 0, 1 with "not running"
\* on code 1, a failure on every other code (negative ones included), and the
\* exit status is the code itself when the code is above 1.
StopCodesAsSpecified ==
    (command = "stop" /\ pc = "exited" /\ returncode # <<>>) =>
        LET c == returncode[1]
        IN  /\ c = 0 => (exitStatus = <<0>> /\ ~ErrorLogged)
            /\ c = 1 => /\ exitStatus = <<1>>
                        /\ InSeq(<<"ERROR", "not_running">>, logged)
            /\ c \notin {0, 1} => /\ exitStatus # <<0>>
                                  /\ InSeq(<<"ERROR", "stop_error">>, logged)
            /\ c > 1 => exitStatus = <<c>>

----------------------------------------------------------------------------
(* C4, C5 *)

\* C4: when the program file of the target does not exist, the run ends with
\* code 1 and the "missing program" error right after that one existence
\* check: nothing is spawned and the PID file is not opened.
MissingProgramEndsRun ==
    programExists = <<FALSE>> =>
        /\ WellFormed(args)
        /\ Finished
        /\ rv = <<1>>
        /\ ~raised
        /\ trace = <<<<"exists", program>>>>
        /\ child = "none"
        /\ content = <<>>
        /\ logged = <<<<"ERROR", "missing_program">>>>
        /\ pc = "exited" => exitStatus = <<1>>

\* status webserver has ended on a missing program file
MissingProgramOnStatus ==
    /\ programExists = <<FALSE>>
    /\ command = "status" /\ target = "webserver"
    /\ pc = "exited"

----------------------------------------------------------------------------
(* C6, C7 *)

\* C6: on a readable PID file, status reports Running exactly when the process
\* id on the first line has a live-process record, Stopped otherwise, and
\* returns 0 either way.
StatusReportsLiveness ==
    (command = "status" /\ pc = "exited" /\ pid # <<>>) =>
        LET alive == Str(pid[1]) \in procs
        IN  /\ exitStatus = <<0>>
            /\ alive <=> InSeq(<<"INFO", "running">>, logged)
            /\ ~alive <=> InSeq(<<"INFO", "is_stopped">>, logged)

\* C7: when the PID file cannot be opened, status ends with an error that is
\* logged and with a nonzero exit status, and reports neither Running nor
\* Stopped.
MissingPidfileIsReported ==
    (command = "status" /\ pc = "exited" /\ raised) =>
        /\ ErrorLogged
        /\ exitStatus # <<0>>
        /\ ~InSeq(<<"INFO", "running">>, logged)
        /\ ~InSeq(<<"INFO", "is_stopped">>, logged)

----------------------------------------------------------------------------
(* C8 *)

\* the stop mechanism answered by its convention: 0 done, 1 nothing to do
Conventional(rc) == rc \in {<<0>>, <<1>>}

\* this run and the one before it are stops of the same target, both answered
\* by convention, and the target was running before the first
TwoStopsInARow ==
    /\ pc = "exited"
    /\ command = "stop"
    /\ Conventional(returncode)
    /\ prev # <<>>
    /\ prev[1].command = "stop"
    /\ prev[1].target = target
    /\ Conventional(prev[1].returncode)
    /\ prev[1].wasRunning

\* C8: of two successive stops of a running target, the mechanism following
\* its convention, the first ends with 0 and the second with 1.
SecondStopIsNoop ==
    TwoStopsInARow => (prev[1].exitStatus = 0 /\ exitStatus = <<1>>)

----------------------------------------------------------------------------
(* C9 *)

\* the exit status as the answers of the environment alone determine it
ExitFromAnswers ==
    IF raised THEN 1
    ELSE IF ~WellFormed(args) \/ programExists = <<FALSE>> THEN 1
    ELSE CASE command = "start" -> code_start[1]
           [] command = "stop" -> code_stop[1]
           [] command = "restart" ->
                IF code_stop = <<0>> /\ code_start = <<0>> THEN 0 ELSE 1
           [] command = "status" -> 0

----------------------------------------------------------------------------
(* C10 *)

\* the spawns and waits the command stands for
Expected(cmd) ==
    CASE cmd = "start" -> <<<<"spawn", "start">>, <<"wait", "start">>>>
      [] cmd = "stop" -> <<<<"spawn", "stop">>, <<"wait", "stop">>>>
      [] cmd = "restart" -> <<<<"spawn", "stop">>, <<"wait", "stop">>,
                              <<"spawn", "start">>, <<"wait", "start">>>>
      [] OTHER -> <<>>

\* C10: a run whose arguments and program file were accepted spawns what its
\* command stands for and nothing else: one start, one stop, stop then start
\* with the stop waited for first, or nothing for status; a child is alive
\* only between its spawn and its wait.
SpawnsFixedByCommand ==
    /\ IsPrefix(ProcessEvents, Expected(command))
    /\ (Finished /\ programExists = <<TRUE>>) =>
          ProcessEvents = Expected(command)
    /\ child # "none" <=> pc \in {"stop_wait", "start_wait"}
    /\ child # "none" =>
          ProcessEvents[Len(ProcessEvents)] = <<"spawn", child>>

\* a restart has ended after its two spawns
RestartSpawnedTwice ==
    /\ command = "restart"
    /\ pc = "exited"
    /\ ProcessEvents = Expected("restart")
    /\ returncode = <<2>>

====
